---- MODULE Spec2Model ----
(***************************************************************************)
(* SSXServer (packages/ssx-server/src/server.ts): the sign-in pipeline.    *)
(*                                                                         *)
(* login() is an async function.  JavaScript runs each synchronous stretch *)
(* of it to completion, so one action models one stretch:                  *)
(*   login(a)       lines 110-132, up to the await of Promise.all;         *)
(*   loginResume(a) lines 132-182, after Promise.all has settled.          *)
(* Between the two, the environment completes the calls login started:     *)
(* the EIP-1271 contract call and the verification fallback inside         *)
(* SiweMessage.verify, and the name-service lookup of resolveEns.  The     *)
(* metrics call of log() is never awaited and completes at any time.       *)
(*                                                                         *)
(* SiweMessage (constructor, verify, prepareMessage) is the siwe 2.1       *)
(* library and utils.verifyMessage is ethers 5; both are modelled at the   *)
(* place server.ts calls them.  ssxResolveEns, ssxLog and SiweGnosisVerify *)
(* belong to other packages of the repository (ssx-core and                *)
(* ssx-gnosis-extension) and are modelled by their contract.               *)
(***************************************************************************)
EXTENDS Integers, FiniteSets, Sequences, TLC

VARIABLES
  provider,   \* this.provider is set (config.providers.rpc was given)
  listener,   \* what is registered on the EventEmitter for the LOGIN event
  pc,         \* per request: "idle", "await" (line 132), "done"; "off": no client
  args,       \* per request: the arguments login was called with
  verifyP,    \* per request: siweMessageVerifyPromise
  eip1271,    \* per request: the EIP-1271 check inside verify
  fallback,   \* per request: the verificationFallback call inside verify
  ensLookup,  \* per request: what the name-service lookup answered
  ensP,       \* per request: the promise resolveEns returned
  allP,       \* per request: Promise.all(promises)
  logP,       \* per request: the promise this.log(event) returned
  audit,      \* per request: the events handed to log / emit
  calls,      \* per request: how often each collaborator was invoked
  outcome,    \* per request: what login returned or threw
  logoutOut   \* per request: what logout returned, whether destroy ran

vars == <<provider, listener, pc, args, verifyP, eip1271, fallback, ensLookup,
          ensP, allP, logP, audit, calls, outcome, logoutOut>>

-----------------------------------------------------------------------------
(* Value domains *)

\* The server serves one client, or two at the same time.
Requests == {"r1", "r2"}

Addresses == {"0xAAA", "0xBBB"}

\* A nonce generateNonce issued.
Nonces == {"abc12345", "wrong678"}

\* The empty string, falsy in JavaScript (as is a missing argument).
NoNonce == ""

\* The canonical EIP-4361 text of a message: what is signed.
Payloads == [address : Addresses, nonce : Nonces, expired : BOOLEAN]

\* The siwe argument: a message that parses, or one that does not.
Malformed == [ok |-> FALSE, address |-> "0xAAA", nonce |-> "abc12345", expired |-> FALSE]

RawMessages ==
  [ok : {TRUE}, address : Addresses, nonce : Nonces, expired : BOOLEAN] \cup {Malformed}

\* A signature: 65 bytes made by `signer` over `payload`, or a byte string
\* that is no ECDSA signature (as contract wallets produce).
Unparseable == [parseable |-> FALSE, signer |-> "0xAAA",
                payload |-> [address |-> "0xAAA", nonce |-> "abc12345", expired |-> FALSE]]

Signatures ==
  [parseable : {TRUE}, signer : Addresses, payload : Payloads] \cup {Unparseable}

ResolveEnsArgs == {"false", "true", "options"}

LoginArgs ==
  [siwe : RawMessages, signature : Signatures, daoLogin : BOOLEAN,
   resolveEns : ResolveEnsArgs, nonce : Nonces \cup {NoNonce}]

\* The logins of two concurrent clients: unexpired messages with the
\* expected nonce, signed over the message itself by the message's address
\* or by another key.
ConcurrentArgs ==
  {in \in LoginArgs :
     /\ in.siwe.ok /\ ~in.siwe.expired
     /\ in.siwe.nonce = "abc12345" /\ in.nonce = "abc12345"
     /\ in.signature.parseable
     /\ in.signature.payload =
          [address |-> in.siwe.address, nonce |-> in.siwe.nonce, expired |-> in.siwe.expired]
     /\ in.resolveEns \in {"false", "true"}}

NoArgs == [siwe |-> Malformed, signature |-> Unparseable, daoLogin |-> FALSE,
           resolveEns |-> "false", nonce |-> NoNonce]

\* SSXEnsData values, and JavaScript's undefined.
EnsEmpty == "{}"
EnsData == "{domain,avatarUrl}"
EnsUndefined == "undefined"

NoError == "none"

\* A promise: pending, fulfilled with a SiweResponse / value, or rejected.
Pending == [st |-> "pending", success |-> FALSE, error |-> NoError, val |-> EnsUndefined]
NotStarted == [st |-> "none", success |-> FALSE, error |-> NoError, val |-> EnsUndefined]
Fulfilled(success, error, val) ==
  [st |-> "fulfilled", success |-> success, error |-> error, val |-> val]
Rejected(error) ==
  [st |-> "rejected", success |-> FALSE, error |-> error, val |-> EnsUndefined]

\* A promise settles once: later resolve / reject calls are ignored.
Settle(p, q) == IF p.st = "pending" THEN q ELSE p

NoCalls == [verify |-> 0, eip1271 |-> 0, fallback |-> 0, ens |-> 0, log |-> 0, emit |-> 0]

NoLogout == [called |-> FALSE, result |-> "undefined", destroyed |-> FALSE]

NoOutcome == [kind |-> "none", success |-> FALSE, error |-> NoError, session |-> {}]

-----------------------------------------------------------------------------
(* siwe and ethers, as login uses them *)

\* new SiweMessage(siwe): the parsed message; throws when siwe is malformed.
SiweMessage(siwe) == [address |-> siwe.address, nonce |-> siwe.nonce, expired |-> siwe.expired]

\* message.prepareMessage(): the text to sign.
prepareMessage(m) == [address |-> m.address, nonce |-> m.nonce, expired |-> m.expired]

\* utils.verifyMessage(text, signature): the address that made the signature
\* over this text; some unrelated address for a signature over another
\* text; throws on a byte string that is no signature.
verifyMessageThrows(signature) == ~signature.parseable
verifyMessage(text, signature) ==
  IF signature.payload = text THEN signature.signer ELSE "0x???"

\* verify's `fail`: suppressExceptions is not passed, so it rejects.
failSuppressed(error) == Fulfilled(FALSE, error, EnsUndefined)
fail(error) == Rejected(error)

resolve == Fulfilled(TRUE, NoError, EnsUndefined)

\* The verificationFallback option of line 116: TRUE when SiweGnosisVerify
\* is passed.
verificationFallbackAlways(daoLogin) == TRUE
verificationFallback(daoLogin) == daoLogin

\* The direct recovery inside verify: its own try / catch leaves addr
\* undefined when the signature is no signature.
directRecovery(m, signature) ==
  ~verifyMessageThrows(signature) /\ verifyMessage(prepareMessage(m), signature) = m.address

\* The synchronous part of message.verify({signature, nonce}, opts).  The
\* nonce is compared only when one is given; a failed check rejects the
\* promise and the function goes on, so the later steps still run.
verifySync(m, signature, nonce) ==
  LET p1 == IF nonce # NoNonce /\ nonce # m.nonce
              THEN Settle(Pending, fail("NonceMismatch")) ELSE Pending
      p2 == IF m.expired THEN Settle(p1, fail("Expired")) ELSE p1
  IN  IF directRecovery(m, signature) THEN Settle(p2, resolve) ELSE p2

\* The end of verify, once the EIP-1271 check and the fallback (if one was
\* passed) have both completed: the fallback's answer decides when there is
\* one, the EIP-1271 answer otherwise.  A fallback whose call was aborted
\* rejects, and verify fails with what it rejected with.
verifyEnd(p, eip, fb) ==
  IF eip = "pending" \/ fb = "pending" \/ eip = "notcalled" THEN p
  ELSE IF fb # "notcalled"
    THEN Settle(p, CASE fb = "true" -> resolve
                     [] fb = "false" -> fail("InvalidSignature")
                     [] OTHER -> fail("AbortError"))
    ELSE Settle(p, CASE eip = "valid" -> resolve
                     [] eip = "invalid" -> fail("InvalidSignature")
                     [] OTHER -> fail("ProviderError"))

-----------------------------------------------------------------------------
(* Name service and Promise.all *)

\* ssxResolveEns(provider, address, opts): the lookup's data, or an empty
\* record on a miss or an internal error (an aborted lookup is one).
ssxResolveEns(lookup) ==
  Fulfilled(TRUE, NoError, IF lookup = "data" THEN EnsData ELSE EnsEmpty)

\* SSXServer.resolveEns: returns what ssxResolveEns returns.
resolveEnsPropagates(lookup) ==
  IF lookup \in {"error", "aborted"}
    THEN Rejected("IdentityResolutionFailed") ELSE ssxResolveEns(lookup)
resolveEns(lookup) == ssxResolveEns(lookup)

\* Promise.all([verify, ens?]): rejected by the first member that rejects,
\* fulfilled when every member is.
PromiseAllVerifyOnly(prev, v, e) ==
  IF prev.st # "pending" THEN prev
  ELSE IF v.st = "rejected" THEN Rejected(v.error)
  ELSE IF v.st = "fulfilled" THEN Fulfilled(TRUE, NoError, EnsUndefined)
  ELSE prev
PromiseAllSettled(prev, v, e) ==
  IF prev.st # "pending" THEN prev
  ELSE IF v.st = "pending" \/ e.st = "pending" THEN prev
  ELSE IF v.st = "rejected" THEN Rejected(v.error)
  ELSE IF e.st = "rejected" THEN Rejected(e.error)
  ELSE Fulfilled(TRUE, NoError, EnsUndefined)
PromiseAll(prev, v, e) ==
  IF prev.st # "pending" THEN prev
  ELSE IF v.st = "rejected" THEN Rejected(v.error)
  ELSE IF e.st = "rejected" THEN Rejected(e.error)
  ELSE IF v.st = "fulfilled" /\ e.st \in {"fulfilled", "none"}
    THEN Fulfilled(TRUE, NoError, EnsUndefined)
  ELSE prev

-----------------------------------------------------------------------------
(* Initial state: a constructed server, no request yet *)

InitRequests ==
  /\ args = [a \in Requests |-> NoArgs]
  /\ verifyP = [a \in Requests |-> NotStarted]
  /\ eip1271 = [a \in Requests |-> "notcalled"]
  /\ fallback = [a \in Requests |-> "notcalled"]
  /\ ensLookup = [a \in Requests |-> "none"]
  /\ ensP = [a \in Requests |-> NotStarted]
  /\ allP = [a \in Requests |-> NotStarted]
  /\ logP = [a \in Requests |-> "none"]
  /\ audit = [a \in Requests |-> <<>>]
  /\ calls = [a \in Requests |-> NoCalls]
  /\ outcome = [a \in Requests |-> NoOutcome]
  /\ logoutOut = [a \in Requests |-> NoLogout]

\* One client.
OneClient == [a \in Requests |-> IF a = "r1" THEN "idle" ELSE "off"]

\* Listeners that return normally (or none).
Init ==
  /\ provider \in BOOLEAN
  /\ listener \in {"none", "returns"}
  /\ pc = OneClient
  /\ InitRequests

\* Any listener, also one that throws.
InitSink ==
  /\ provider \in BOOLEAN
  /\ listener \in {"none", "returns", "throws"}
  /\ pc = OneClient
  /\ InitRequests

\* Two clients whose calls overlap.
InitTwo ==
  /\ provider \in BOOLEAN
  /\ listener \in {"none", "returns"}
  /\ pc = [a \in Requests |-> "idle"]
  /\ InitRequests

\* The arguments a client passes to login.
Inputs == IF \E b \in Requests : pc[b] = "off" THEN LoginArgs ELSE ConcurrentArgs

-----------------------------------------------------------------------------
(* login, lines 99-132 *)

login(a) ==
  /\ pc[a] = "idle"
  /\ \E in \in Inputs :
       LET m == SiweMessage(in.siwe)
           direct == directRecovery(m, in.signature)
           fb0 == IF ~direct /\ verificationFallback(in.daoLogin) THEN "pending" ELSE "notcalled"
           \* checkContractWalletSignature returns false at once without a provider
           eip0 == IF direct THEN "notcalled" ELSE IF provider THEN "pending" ELSE "invalid"
           v == verifyEnd(verifySync(m, in.signature, in.nonce), eip0, fb0)
           e == IF in.resolveEns # "false" THEN Pending ELSE NotStarted
       IN
       /\ args' = [args EXCEPT ![a] = in]
       /\ logP' = [logP EXCEPT ![a] = "none"]
       /\ audit' = [audit EXCEPT ![a] = <<>>]
       /\ IF ~in.siwe.ok
            THEN \* line 110 throws
              /\ pc' = [pc EXCEPT ![a] = "done"]
              /\ outcome' = [outcome EXCEPT ![a] =
                   [kind |-> "thrown", success |-> FALSE,
                    error |-> "MalformedMessage", session |-> {}]]
              /\ verifyP' = [verifyP EXCEPT ![a] = NotStarted]
              /\ eip1271' = [eip1271 EXCEPT ![a] = "notcalled"]
              /\ fallback' = [fallback EXCEPT ![a] = "notcalled"]
              /\ ensLookup' = [ensLookup EXCEPT ![a] = "none"]
              /\ ensP' = [ensP EXCEPT ![a] = NotStarted]
              /\ allP' = [allP EXCEPT ![a] = NotStarted]
              /\ calls' = [calls EXCEPT ![a] = NoCalls]
            ELSE
              /\ pc' = [pc EXCEPT ![a] = "await"]
              /\ outcome' = [outcome EXCEPT ![a] = NoOutcome]
              /\ verifyP' = [verifyP EXCEPT ![a] = v]
              /\ eip1271' = [eip1271 EXCEPT ![a] = eip0]
              /\ fallback' = [fallback EXCEPT ![a] = fb0]
              /\ ensLookup' = [ensLookup EXCEPT ![a] =
                   IF in.resolveEns # "false" THEN "pending" ELSE "none"]
              /\ ensP' = [ensP EXCEPT ![a] = e]
              /\ allP' = [allP EXCEPT ![a] = PromiseAll(Pending, v, e)]
              /\ calls' = [calls EXCEPT ![a] =
                   [verify |-> 1,
                    eip1271 |-> IF eip0 = "notcalled" THEN 0 ELSE 1,
                    fallback |-> IF fb0 = "notcalled" THEN 0 ELSE 1,
                    ens |-> IF in.resolveEns # "false" THEN 1 ELSE 0,
                    log |-> 0, emit |-> 0]]
  /\ UNCHANGED <<provider, listener, logoutOut>>

-----------------------------------------------------------------------------
(* The calls login is waiting for *)

\* walletContract.isValidSignature(hash, signature) answers: the magic
\* value, another value, or a call exception.
checkContractWalletSignature(a) ==
  /\ eip1271[a] = "pending"
  /\ \E r \in {"valid", "invalid", "error"} :
       LET v == verifyEnd(verifyP[a], r, fallback[a]) IN
       /\ eip1271' = [eip1271 EXCEPT ![a] = r]
       /\ verifyP' = [verifyP EXCEPT ![a] = v]
       /\ allP' = [allP EXCEPT ![a] = PromiseAll(allP[a], v, ensP[a])]
  /\ UNCHANGED <<provider, listener, pc, args, fallback, ensLookup, ensP, logP, audit,
                 calls, outcome, logoutOut>>

\* The fallback verifier (SiweGnosisVerify) answers whether the signature
\* is acceptable for the claimed address, or its on-chain call is aborted.
SiweGnosisVerify(a) ==
  /\ fallback[a] = "pending"
  /\ \E r \in {"true", "false", "aborted"} :
       LET v == verifyEnd(verifyP[a], eip1271[a], r) IN
       /\ fallback' = [fallback EXCEPT ![a] = r]
       /\ verifyP' = [verifyP EXCEPT ![a] = v]
       /\ allP' = [allP EXCEPT ![a] = PromiseAll(allP[a], v, ensP[a])]
  /\ UNCHANGED <<provider, listener, pc, args, eip1271, ensLookup, ensP, logP, audit,
                 calls, outcome, logoutOut>>

\* The name-service lookup completes: with data, with a miss, or with an
\* error; or it is aborted.
resolveEnsReturnRetry(a) ==
  /\ ensP[a].st = "pending"
  /\ \/ \E lookup \in {"data", "miss", "error", "aborted"} :
          LET e == resolveEns(lookup) IN
          /\ ensLookup' = [ensLookup EXCEPT ![a] = lookup]
          /\ ensP' = [ensP EXCEPT ![a] = e]
          /\ allP' = [allP EXCEPT ![a] = PromiseAll(allP[a], verifyP[a], e)]
          /\ UNCHANGED calls
     \/ /\ calls[a].ens < 2
        /\ calls' = [calls EXCEPT ![a].ens = @ + 1]
        /\ UNCHANGED <<ensLookup, ensP, allP>>
  /\ UNCHANGED <<provider, listener, pc, args, verifyP, eip1271, fallback,
                 logP, audit, outcome, logoutOut>>
resolveEnsReturnShared(a) ==
  /\ ensP[a].st = "pending"
  /\ \E lookup \in {"data", "miss", "error", "aborted"} :
       LET e == resolveEns(lookup) IN
       /\ ensLookup' = [ensLookup EXCEPT ![a] = lookup]
       /\ ensP' = [b \in Requests |-> IF ensP[b].st = "pending" THEN e ELSE ensP[b]]
       /\ allP' = [b \in Requests |->
                    IF ensP[b].st = "pending" THEN PromiseAll(allP[b], verifyP[b], e)
                    ELSE allP[b]]
  /\ UNCHANGED <<provider, listener, pc, args, verifyP, eip1271, fallback,
                 logP, audit, calls, outcome, logoutOut>>
resolveEnsReturn(a) ==
  /\ ensP[a].st = "pending"
  /\ \E lookup \in {"data", "miss", "error", "aborted"} :
       LET e == resolveEns(lookup) IN
       /\ ensLookup' = [ensLookup EXCEPT ![a] = lookup]
       /\ ensP' = [ensP EXCEPT ![a] = e]
       /\ allP' = [allP EXCEPT ![a] = PromiseAll(allP[a], verifyP[a], e)]
  /\ UNCHANGED <<provider, listener, pc, args, verifyP, eip1271, fallback,
                 logP, audit, calls, outcome, logoutOut>>

\* The metrics call of this.log(event) completes.
log(a) ==
  /\ logP[a] = "pending"
  /\ \E r \in {"true", "false", "rejected"} : logP' = [logP EXCEPT ![a] = r]
  /\ UNCHANGED <<provider, listener, pc, args, verifyP, eip1271, fallback,
                 ensLookup, ensP, allP, audit, calls, outcome, logoutOut>>

-----------------------------------------------------------------------------
(* login, lines 132-182: after the await *)

\* Line 151: true when the signature does not recover to the message's
\* address.
smartContractWalletNotNegated(data, signature) ==
  verifyMessage(prepareMessage(data), signature) = data.address
smartContractWalletOrCustomMethod(data, signature) ==
  ~(verifyMessage(prepareMessage(data), signature) = data.address)

\* Lines 159-167: the audit event.
eventNoDaoLogin(in, data) ==
  [userId |-> data.address,
   type |-> "LOGIN",
   signature |-> in.signature,
   siwe |-> in.siwe,
   isGnosis |-> smartContractWalletOrCustomMethod(data, in.signature)]
event(in, data) ==
  [userId |-> data.address,
   type |-> "LOGIN",
   signature |-> in.signature,
   siwe |-> in.siwe,
   isGnosis |-> in.daoLogin /\ smartContractWalletOrCustomMethod(data, in.signature)]

\* Lines 132-137: ens = ensData, undefined when promises has one member only.
ensData(in, e) == IF in.resolveEns # "false" THEN e.val ELSE EnsUndefined

\* Lines 172-181: the value login returns.
loginResult(in, v, ens) ==
  [kind |-> "returned", success |-> v.success, error |-> v.error,
   session |-> {[siwe |-> SiweMessage(in.siwe), signature |-> in.signature,
                 daoLogin |-> in.daoLogin, ens |-> ens]}]

thrown(error) == [kind |-> "thrown", success |-> FALSE, error |-> error, session |-> {}]

loginResumeAwaitsLog(a) ==
  /\ pc[a] = "await"
  /\ allP[a].st \in {"fulfilled", "rejected"}
  /\ LET in == args[a]
         data == SiweMessage(in.siwe)
     IN
     IF allP[a].st = "rejected"
       THEN
         /\ pc' = [pc EXCEPT ![a] = "done"]
         /\ outcome' = [outcome EXCEPT ![a] = thrown(allP[a].error)]
         /\ UNCHANGED <<logP, audit, calls>>
     ELSE IF verifyMessageThrows(in.signature)
       THEN
         /\ pc' = [pc EXCEPT ![a] = "done"]
         /\ outcome' = [outcome EXCEPT ![a] = thrown("SignatureError")]
         /\ UNCHANGED <<logP, audit, calls>>
     ELSE IF logP[a] = "none"
       THEN
         /\ logP' = [logP EXCEPT ![a] = "pending"]
         /\ audit' = [audit EXCEPT ![a] = Append(audit[a], event(in, data))]
         /\ calls' = [calls EXCEPT ![a].log = @ + 1]
         /\ UNCHANGED <<pc, outcome>>
     ELSE
         /\ logP[a] # "pending"
         /\ pc' = [pc EXCEPT ![a] = "done"]
         /\ calls' = [calls EXCEPT ![a].emit = @ + 1]
         /\ outcome' = [outcome EXCEPT ![a] =
              IF logP[a] = "rejected" THEN thrown("SinkError")
              ELSE IF listener = "throws" THEN thrown("ListenerError")
              ELSE loginResult(in, verifyP[a], ensData(in, ensP[a]))]
         /\ UNCHANGED <<logP, audit>>
  /\ UNCHANGED <<provider, listener, args, verifyP, eip1271, fallback, ensLookup, ensP,
                 allP, logoutOut>>
loginResume(a) ==
  /\ pc[a] = "await"
  /\ allP[a].st \in {"fulfilled", "rejected"}
  /\ pc' = [pc EXCEPT ![a] = "done"]
  /\ LET in == args[a]
         data == SiweMessage(in.siwe)
     IN
     IF allP[a].st = "rejected"
       THEN \* lines 138-141
         /\ outcome' = [outcome EXCEPT ![a] = thrown(allP[a].error)]
         /\ UNCHANGED <<logP, audit, calls>>
     ELSE IF verifyMessageThrows(in.signature)
       THEN \* lines 154-157
         /\ outcome' = [outcome EXCEPT ![a] = thrown("SignatureError")]
         /\ UNCHANGED <<logP, audit, calls>>
     ELSE
         /\ logP' = [logP EXCEPT ![a] = "pending"]
         /\ audit' = [audit EXCEPT ![a] = Append(audit[a], event(in, data))]
         /\ calls' = [calls EXCEPT ![a].log = @ + 1, ![a].emit = @ + 1]
         /\ outcome' = [outcome EXCEPT ![a] =
              IF listener = "throws"
                THEN thrown("ListenerError")   \* emit rethrows what a listener throws
                ELSE loginResult(in, verifyP[a], ensData(in, ensP[a]))]
  /\ UNCHANGED <<provider, listener, args, verifyP, eip1271, fallback, ensLookup, ensP,
                 allP, logoutOut>>

-----------------------------------------------------------------------------
(* logout, lines 205-209 *)

\* A destroy capability resolves to true or false, or rejects.
DestroySessions == {"absent", "true", "false", "rejected"}

logout(a) ==
  /\ pc[a] = "idle"
  /\ pc' = [pc EXCEPT ![a] = "done"]
  /\ \E destroySession \in DestroySessions :
       logoutOut' = [logoutOut EXCEPT ![a] =
                      [called |-> TRUE,
                       result |-> IF destroySession = "absent" THEN "undefined"
                                  ELSE destroySession,
                       destroyed |-> destroySession # "absent"]]
  /\ UNCHANGED <<provider, listener, args, verifyP, eip1271, fallback,
                 ensLookup, ensP, allP, logP, audit, calls, outcome>>

-----------------------------------------------------------------------------
(* The next call *)

\* login and logout keep their state in locals: a call that has completed
\* leaves nothing behind, and the next call starts afresh.
nextCall(a) ==
  /\ pc[a] = "done"
  /\ pc' = [pc EXCEPT ![a] = "idle"]
  /\ args' = [args EXCEPT ![a] = NoArgs]
  /\ verifyP' = [verifyP EXCEPT ![a] = NotStarted]
  /\ eip1271' = [eip1271 EXCEPT ![a] = "notcalled"]
  /\ fallback' = [fallback EXCEPT ![a] = "notcalled"]
  /\ ensLookup' = [ensLookup EXCEPT ![a] = "none"]
  /\ ensP' = [ensP EXCEPT ![a] = NotStarted]
  /\ allP' = [allP EXCEPT ![a] = NotStarted]
  /\ logP' = [logP EXCEPT ![a] = "none"]
  /\ audit' = [audit EXCEPT ![a] = <<>>]
  /\ calls' = [calls EXCEPT ![a] = NoCalls]
  /\ outcome' = [outcome EXCEPT ![a] = NoOutcome]
  /\ logoutOut' = [logoutOut EXCEPT ![a] = NoLogout]
  /\ UNCHANGED <<provider, listener>>

-----------------------------------------------------------------------------
(* Specifications *)

Next ==
  \E a \in Requests :
    \/ login(a)
    \/ checkContractWalletSignature(a)
    \/ SiweGnosisVerify(a)
    \/ resolveEnsReturn(a)
    \/ log(a)
    \/ loginResume(a)
    \/ logout(a)
    \/ nextCall(a)

\* Listeners behave.
Spec == Init /\ [][Next]_vars

\* Listeners behave, and the event loop runs the continuation of login once
\* the promise it awaits has settled.  Nothing obliges the chain, the name
\* service or the audit sink to answer.
SpecLive == Init /\ [][Next]_vars /\ \A a \in Requests : WF_vars(loginResume(a))

\* Listeners may throw.
SpecSink == InitSink /\ [][Next]_vars

\* Two clients at once.
SpecTwo == InitTwo /\ [][Next]_vars

-----------------------------------------------------------------------------------------------------------------------------------------------------
(* Shorthands for the properties *)

TypeOK ==
  /\ provider \in BOOLEAN
  /\ listener \in {"none", "returns", "throws"}
  /\ \A a \in Requests :
       /\ pc[a] \in {"off", "idle", "await", "done"}
       /\ args[a] \in LoginArgs \cup {NoArgs}
       /\ eip1271[a] \in {"notcalled", "pending", "valid", "invalid", "error"}
       /\ fallback[a] \in {"notcalled", "pending", "true", "false", "aborted"}
       /\ ensLookup[a] \in {"none", "pending", "data", "miss", "error", "aborted"}
       /\ logP[a] \in {"none", "pending", "true", "false", "rejected"}
       /\ outcome[a].kind \in {"none", "returned", "thrown"}

\* login has completed: it returned a result or threw.
LoginDone(a) == pc[a] = "done" /\ outcome[a].kind # "none"
Returned(a) == LoginDone(a) /\ outcome[a].kind = "returned"
Threw(a) == LoginDone(a) /\ outcome[a].kind = "thrown"
\* login ended in failure with this error, returned or thrown.
FailedWith(a, error) ==
  /\ LoginDone(a)
  /\ outcome[a].kind = "thrown" \/ ~outcome[a].success
  /\ outcome[a].error = error
Succeeded(a) == Returned(a) /\ outcome[a].success /\ outcome[a].session # {}

Parsed(a) == args[a].siwe.ok
Message(a) == SiweMessage(args[a].siwe)
NonceMatches(a) == Message(a).nonce = args[a].nonce
DirectlyRecovers(a) == directRecovery(Message(a), args[a].signature)
VerificationSucceeded(a) == verifyP[a].st = "fulfilled" /\ verifyP[a].success
\* The contract-fallback flag of the one audit event of the request.
AuditFlag(a, flag) == Len(audit[a]) = 1 /\ audit[a][1].isGnosis = flag

-----------------------------------------------------------------------------
(* Properties *)

\* C1: every login whose message nonce differs from the expected nonce fails
\* with NonceMismatch, whatever the signature and daoLogin.  (Violated: an
\* empty expected nonce is not compared.)
C1_NonceMismatchAlways ==
  \A a \in Requests :
    (LoginDone(a) /\ Parsed(a) /\ ~NonceMatches(a)) => FailedWith(a, "NonceMismatch")

\* C2: a parsing or verification failure is returned in the error field of
\* the login result and never thrown.  (Violated: login rethrows.)
VerificationErrors == {"MalformedMessage", "NonceMismatch", "Expired", "InvalidSignature"}
C2_FailuresAreReturned ==
  \A a \in Requests :
    (LoginDone(a) /\ outcome[a].error \in VerificationErrors)
      => (outcome[a].kind = "returned" /\ ~outcome[a].success)

\* C3: no login outcome pairs a failure with a session: a failed login has
\* no session, and a session comes only with success = true.
C3_NoSessionOnFailure ==
  \A a \in Requests :
    LoginDone(a) =>
      /\ (outcome[a].kind = "thrown" \/ ~outcome[a].success) => outcome[a].session = {}
      /\ outcome[a].session # {} => (outcome[a].kind = "returned" /\ outcome[a].success)
C3_Witness ==
  \E a \in Requests :
    /\ FailedWith(a, "InvalidSignature")
    /\ args[a].signature.parseable
    /\ outcome[a].session = {}

\* C4: an unexpired message with the expected nonce and a signature that
\* recovers to message.address logs in with success = true and the audit
\* event's isGnosis false, for both values of daoLogin.
ValidEOA(a) ==
  Parsed(a) /\ ~Message(a).expired /\ NonceMatches(a) /\ DirectlyRecovers(a)
C4_ValidEOASucceeds ==
  \A a \in Requests :
    (LoginDone(a) /\ ValidEOA(a)) => (Succeeded(a) /\ AuditFlag(a, FALSE))
C4_Witness ==
  \E a \in Requests :
    LoginDone(a) /\ ValidEOA(a) /\ args[a].daoLogin /\ Succeeded(a) /\ AuditFlag(a, FALSE)

\* C5: for a signature that does not recover to message.address, with the
\* expected nonce and no expiry: daoLogin = false fails with
\* InvalidSignature; daoLogin = true succeeds with the flag true when the
\* on-chain predicate holds and fails with InvalidSignature when it does
\* not.  (Violated: a signature that is no ECDSA signature makes line 152
\* throw after a successful verification.)
ContractSigner(a) ==
  Parsed(a) /\ ~Message(a).expired /\ NonceMatches(a) /\ ~DirectlyRecovers(a)
C5_ContractSigner ==
  \A a \in Requests :
    (LoginDone(a) /\ ContractSigner(a)) =>
      /\ ~args[a].daoLogin => FailedWith(a, "InvalidSignature")
      /\ (args[a].daoLogin /\ fallback[a] = "true") => (Succeeded(a) /\ AuditFlag(a, TRUE))
      /\ (args[a].daoLogin /\ fallback[a] = "false") => FailedWith(a, "InvalidSignature")

\* C6: the fallback verifier is invoked only when daoLogin is true and the
\* direct recovery did not yield message.address; never with daoLogin false.
C6_FallbackOnlyWhenEnabled ==
  \A a \in Requests :
    (fallback[a] # "notcalled" \/ calls[a].fallback > 0)
      => (args[a].daoLogin /\ Parsed(a) /\ ~DirectlyRecovers(a))
C6_Witness ==
  \E a \in Requests :
    fallback[a] \in {"true", "false"} /\ calls[a].fallback = 1 /\ args[a].daoLogin

\* C7: when verification succeeds and identity resolution was requested and
\* fails (error or miss), login returns success = true with a session whose
\* identity data is empty, and no error.  (Violated: line 152 throws for a
\* signature that is no ECDSA signature.)
C7_IdentityFailureAbsorbed ==
  \A a \in Requests :
    (LoginDone(a) /\ VerificationSucceeded(a) /\ ensLookup[a] \in {"miss", "error"})
      => /\ Succeeded(a)
         /\ outcome[a].error = NoError
         /\ \A ses \in outcome[a].session : ses.ens = EnsEmpty

\* C8: when verification succeeds, a failure of the audit sink (log
\* rejecting or returning false, a listener throwing) does not change the
\* outcome: login returns success = true with the session.  (Violated: emit
\* rethrows what a listener throws.)
SinkFailed(a) == logP[a] \in {"false", "rejected"} \/ listener = "throws"
C8_SinkFailureAbsorbed ==
  \A a \in Requests :
    (LoginDone(a) /\ ValidEOA(a) /\ SinkFailed(a)) => Succeeded(a)

\* C9: with resolveEns false and a successful verification, the session has
\* ens = {}, the input signature and the input daoLogin.  (Violated: ens is
\* undefined.)
C9_NoIdentityRequested ==
  \A a \in Requests :
    (Returned(a) /\ outcome[a].success /\ args[a].resolveEns = "false") =>
      \A ses \in outcome[a].session :
        /\ ses.ens = EnsEmpty
        /\ ses.signature = args[a].signature
        /\ ses.daoLogin = args[a].daoLogin

\* C10: logout without a destroy capability does nothing and returns true.
\* (Violated: it returns undefined.)
C10_LogoutNoDestroy ==
  \A a \in Requests :
    (logoutOut[a].called /\ ~logoutOut[a].destroyed) => logoutOut[a].result = "true"

\* C11 as stated: the audit flag is true exactly when verification succeeded
\* by the fallback path (not by direct recovery), whatever daoLogin is.
\* (Violated: with daoLogin false the flag is false, also when only the
\* EIP-1271 check accepted the signature.)
ViaFallbackPath(a) == VerificationSucceeded(a) /\ ~DirectlyRecovers(a)
C11_FlagFromOutcomeOnly ==
  \A a \in Requests :
    Len(audit[a]) = 1 => (audit[a][1].isGnosis <=> ViaFallbackPath(a))

\* C11 amended: the audit flag is true exactly when daoLogin is true and the
\* signature does not recover to message.address.
C11_FlagNeedsDaoLogin ==
  \A a \in Requests :
    Len(audit[a]) = 1 =>
      (audit[a][1].isGnosis <=> (args[a].daoLogin /\ ~DirectlyRecovers(a)))
C11_Witness ==
  \E a \in Requests :
    /\ Returned(a) /\ outcome[a].success
    /\ ~args[a].daoLogin /\ ViaFallbackPath(a)
    /\ AuditFlag(a, FALSE)

\* C12: every login attempt, whether verification succeeds or fails, hands
\* exactly one LOGIN audit event to the sink.  (Violated: a failed attempt
\* throws before the event is built and hands over none.)
C12_OneEventPerAttempt ==
  \A a \in Requests :
    LoginDone(a) => (Len(audit[a]) = 1 /\ calls[a].log = 1)

\* C13: an expired message with the expected nonce fails with Expired,
\* whatever the signature, and the fallback verifier is not consulted.
\* (Violated: verify goes on after the expiry check has failed and calls the
\* fallback when the signature does not recover to message.address.)
ExpiredMessage(a) == Parsed(a) /\ Message(a).expired /\ NonceMatches(a)
C13_ExpiredWithoutFallback ==
  \A a \in Requests :
    ExpiredMessage(a) =>
      /\ LoginDone(a) => FailedWith(a, "Expired")
      /\ pc[a] # "idle" => fallback[a] = "notcalled"

\* C14: when the on-chain fallback check or the identity lookup is aborted
\* during a login, login ends with the Timeout error.  (Violated: login has
\* no Timeout error; an aborted fallback makes it throw the abort error, an
\* aborted lookup leaves it successful.)
AbortedDuringLogin(a) ==
  /\ pc[a] = "await" \/ LoginDone(a)
  /\ \/ fallback[a] = "aborted" /\ verifyP[a].error = "AbortError"
     \/ ensLookup[a] = "aborted" /\ VerificationSucceeded(a)
C14_AbortGivesTimeout ==
  \A a \in Requests :
    (LoginDone(a) /\ AbortedDuringLogin(a)) => FailedWith(a, "Timeout")

\* C15: with identity resolution requested, verification and the lookup are
\* both started before login awaits; the audit event and the returned
\* session come only after both have completed, and the session's identity
\* data is what the lookup produced.
IdentityRequested(a) == Parsed(a) /\ args[a].resolveEns # "false"
C15_BothStartedBothAwaited ==
  \A a \in Requests :
    (IdentityRequested(a) /\ pc[a] \in {"await", "done"}) =>
      /\ calls[a].verify = 1 /\ calls[a].ens = 1
      /\ (Len(audit[a]) > 0 \/ Returned(a)) =>
           (verifyP[a].st = "fulfilled" /\ ensP[a].st = "fulfilled")
      /\ Returned(a) => \A ses \in outcome[a].session : ses.ens = ensP[a].val
C15_Witness ==
  \E a \in Requests :
    /\ IdentityRequested(a) /\ Returned(a) /\ Len(audit[a]) = 1
    /\ ensLookup[a] = "data"
    /\ \A ses \in outcome[a].session : ses.ens = EnsData

C17_NeverBlockedByIdentity ==
  \A a \in Requests :
    (pc[a] = "await" /\ verifyP[a].st \in {"fulfilled", "rejected"}) ~> (pc[a] = "done")

\* C17, amended: a failed verification ends login without waiting for the
\* identity lookup; a successful one ends login once the lookup, when one
\* was started, has completed too.
C17_BlockedOnlyAfterSuccess ==
  \A a \in Requests :
    /\ (pc[a] = "await" /\ verifyP[a].st = "rejected") ~> (pc[a] = "done")
    /\ (pc[a] = "await" /\ verifyP[a].st = "fulfilled" /\ ensP[a].st # "pending")
         ~> (pc[a] = "done")
C17_Witness ==
  \E a \in Requests :
    /\ Threw(a) /\ verifyP[a].st = "rejected" /\ outcome[a].error = verifyP[a].error
    /\ ensP[a].st = "pending"

\* C18: once verification and identity resolution have completed
\* successfully, login ends, even when the audit sink never completes.
C18_NeverWaitsForSink ==
  \A a \in Requests :
    (pc[a] = "await" /\ allP[a].st = "fulfilled") ~> (pc[a] = "done")
C18_Witness ==
  \E a \in Requests : Returned(a) /\ outcome[a].success /\ logP[a] = "pending"

\* C19: within one login, verification, the contract-wallet check, the
\* fallback verifier, the identity lookup and the sink record are each
\* invoked at most once, whatever they answer: nothing is retried.
C19_NoRetry ==
  \A a \in Requests :
    /\ calls[a].verify <= 1 /\ calls[a].eip1271 <= 1 /\ calls[a].fallback <= 1
    /\ calls[a].ens <= 1 /\ calls[a].log <= 1 /\ calls[a].emit <= 1
    /\ Len(audit[a]) <= 1
C19_Witness ==
  \E a \in Requests :
    /\ LoginDone(a)
    /\ eip1271[a] = "error" /\ calls[a].eip1271 = 1
    /\ fallback[a] = "true" /\ calls[a].fallback = 1
    /\ ensLookup[a] = "error" /\ calls[a].ens = 1
    /\ calls[a].verify = 1 /\ calls[a].log = 1

\* The state of one call.
Slot(a) ==
  <<pc[a], args[a], verifyP[a], eip1271[a], fallback[a], ensLookup[a], ensP[a],
    allP[a], logP[a], audit[a], calls[a], outcome[a], logoutOut[a]>>

\* What login(in) ends with when it runs alone and its calls answer eip, fb
\* and lookup (lines 110-181).
Solo(in, eip, fb, lookup) ==
  LET m == SiweMessage(in.siwe)
      v == verifyEnd(verifySync(m, in.signature, in.nonce), eip, fb)
  IN IF ~in.siwe.ok THEN thrown("MalformedMessage")
     ELSE IF v.st = "rejected" THEN thrown(v.error)
     ELSE IF verifyMessageThrows(in.signature) THEN thrown("SignatureError")
     ELSE loginResult(in, v, ensData(in, resolveEns(lookup)))

\* C20: two logins in flight on one server do not interfere: a step of one
\* leaves the other's state alone, each ends as it would have alone, given
\* its own arguments and the answers to its own calls, and no step changes
\* the server's provider or listeners.
C20_NoInterference ==
  [][ /\ provider' = provider /\ listener' = listener
      /\ \E a \in Requests : \A b \in Requests \ {a} : Slot(b)' = Slot(b)
      /\ \A a \in Requests :
           LoginDone(a)' =>
             outcome'[a] = Solo(args'[a], eip1271'[a], fallback'[a], ensLookup'[a])
    ]_vars
C20_Witness ==
  \E a, b \in Requests :
    /\ a # b
    /\ pc[a] = "await" /\ ensP[a].st = "pending"
    /\ Returned(b) /\ IdentityRequested(b)
    /\ \A ses \in outcome[b].session : ses.ens = EnsData

====
